---- MODULE Spec2Model ----
(***************************************************************************)
(* ZillowBot: the mailbox polling pipeline (utils.fetch_new_listings), the  *)
(* listing extractor (utils.parse_message_for_listing) and the consuming    *)
(* bot task (ZillowBot.post_new_listings).                                  *)
(***************************************************************************)
EXTENDS Integers, Sequences, FiniteSets, TLC

(***************************************************************************)
(* Bounds of the model.                                                     *)
(***************************************************************************)
\* messages that ever arrive in the mailbox
MaxMsgs == 3
\* searches (poll cycles) of one run
MaxSearches == 3

(***************************************************************************)
(* Values.                                                                  *)
(***************************************************************************)
\* Python's None
None == "None"

\* characters of an element's text: a letter, a blank, U+200C
ZWNJ == "zwnj"
SP == " "

\* the configured scan limit of find_all
ScanLimit == 5

\* the fields of the ZillowListing namedtuple
ZillowListing == {"url", "image_url", "price", "facts", "address"}

\* settings.SENDER / settings.SUBJECT of the search criteria
SENDER == "rental-instant-updates@mail.zillow.com"
SUBJECT == "New Listing"

(***************************************************************************)
(* str helpers used by the extractor.                                       *)
(***************************************************************************)
\* str.startswith, on labels kept as sequences of words
startswith(s, prefix) ==
    /\ Len(s) >= Len(prefix)
    /\ SubSeq(s, 1, Len(prefix)) = prefix

RECURSIVE lstrip(_)
lstrip(s) ==
    IF s = <<>> THEN <<>>
    ELSE IF Head(s) = SP THEN lstrip(Tail(s)) ELSE s

RECURSIVE rstrip(_)
rstrip(s) ==
    IF s = <<>> THEN <<>>
    ELSE IF s[Len(s)] = SP THEN rstrip(SubSeq(s, 1, Len(s) - 1)) ELSE s

\* mutant: only the leading whitespace is removed
stripLeftOnly(s) == lstrip(s)

\* str.strip(): leading and trailing whitespace only (U+200C is no whitespace)
strip(s) == rstrip(lstrip(s))

\* str.replace(old, ''), for a one-character old
RECURSIVE replace(_, _)
replace(s, old) ==
    IF s = <<>> THEN <<>>
    ELSE IF Head(s) = old THEN replace(Tail(s), old)
         ELSE <<Head(s)>> \o replace(Tail(s), old)

(***************************************************************************)
(* parse_message_for_listing.                                               *)
(* A message is [sender, subject, parts]; a part is [ctype, tags]; a tag of *)
(* the HTML tree is [has_aria, aria, text, a, background]: whether it has   *)
(* an aria-label and the label's words, its text, its first anchor (<<>>    *)
(* when it has none, else <<href>>, the href being None when the anchor has *)
(* no href) and its background attribute (None when it has none).           *)
(***************************************************************************)
\* mutant: the loop takes the first part whatever its content type
HtmlPartsOfAnyType(message) == message.parts

\* the parts of the message whose content type is text/html
HtmlParts(message) ==
    SelectSeq(message.parts, LAMBDA part : part.ctype = "text/html")

\* mutant: find_all without its limit
find_allWithoutLimit(tags, limit) ==
    SelectSeq(tags, LAMBDA tag : tag.has_aria)

\* html_doc.find_all(attrs={'aria-label': True}, limit=5)
find_all(tags, limit) ==
    LET labelled == SelectSeq(tags, LAMBDA tag : tag.has_aria)
    IN  SubSeq(labelled, 1, IF Len(labelled) < limit THEN Len(labelled) ELSE limit)

\* listing_info[key] = value
SetItem(info, key, value) ==
    [k \in (DOMAIN info) \cup {key} |-> IF k = key THEN <<value>> ELSE info[k]]

\* one pass of the loop body over a tag: the exception it raises ("" when
\* none; tag.a is None for a photo element without an anchor) and the dict
ScanTag(info, tag) ==
    IF startswith(tag.aria, <<"Property", "photo">>)
    THEN IF tag.a = <<>>
         THEN [exc |-> "AttributeError", info |-> info]
         ELSE [exc |-> "",
               info |-> SetItem(SetItem(info, "url", tag.a[1]),
                                "image_url", tag.background)]
    ELSE IF startswith(tag.aria, <<"Property", "price">>)
    THEN [exc |-> "", info |-> SetItem(info, "price", strip(tag.text))]
    ELSE IF startswith(tag.aria, <<"Property", "facts">>)
    THEN [exc |-> "", info |-> SetItem(info, "facts", strip(tag.text))]
    ELSE IF startswith(tag.aria, <<"Property", "address">>)
    THEN [exc |-> "",
          info |-> SetItem(info, "address", replace(strip(tag.text), ZWNJ))]
    ELSE [exc |-> "", info |-> info]

RECURSIVE ScanTags(_, _)
ScanTags(info, tags) ==
    IF tags = <<>> THEN [exc |-> "", info |-> info]
    ELSE LET step == ScanTag(info, Head(tags))
         IN  IF step.exc # "" THEN step ELSE ScanTags(step.info, Tail(tags))

\* the empty dict
EmptyInfo == [k \in {} |-> <<>>]

\* the value a failed call leaves in place of a listing
NoListing == [k \in {} |-> <<>>]

\* the result: [status |-> "ok", listing |-> the namedtuple], or the exception
\* the call raises. A field of the namedtuple is <<value>>.
parse_message_for_listing(message) ==
    IF HtmlParts(message) = <<>>
    THEN [status |-> "UnboundLocalError", listing |-> NoListing]
    ELSE LET body == Head(HtmlParts(message))
             scan == ScanTags(EmptyInfo, find_all(body.tags, ScanLimit))
         IN  IF scan.exc # ""
             THEN [status |-> scan.exc, listing |-> NoListing]
             ELSE IF DOMAIN scan.info # ZillowListing
             THEN [status |-> "TypeError", listing |-> NoListing]
             ELSE [status |-> "ok", listing |-> scan.info]

(***************************************************************************)
(* The messages that can arrive in the mailbox.                             *)
(***************************************************************************)
Tag(label, text, a, background) ==
    [has_aria |-> TRUE, aria |-> label, text |-> text, a |-> a,
     background |-> background]

PhotoTag == Tag(<<"Property", "photo", "of", "home">>, <<>>, <<"href">>, "img")
PriceTag == Tag(<<"Property", "price">>, <<SP, "p", SP>>, <<>>, None)
FactsTag == Tag(<<"Property", "facts">>, <<"f">>, <<>>, None)
AddressTag == Tag(<<"Property", "address">>, <<"a", ZWNJ, "d", SP>>, <<>>, None)

PlainPart == [ctype |-> "text/plain", tags |-> <<>>]
HtmlPart(tags) == [ctype |-> "text/html", tags |-> tags]

\* an instant update with the four labelled elements
FullMsg ==
    [sender |-> SENDER, subject |-> SUBJECT,
     parts |-> <<PlainPart, HtmlPart(<<PhotoTag, PriceTag, FactsTag, AddressTag>>)>>]
\* an instant update without an HTML part
NoHtmlMsg ==
    [sender |-> SENDER, subject |-> SUBJECT, parts |-> <<PlainPart>>]
\* an instant update whose HTML part lacks the photo and the facts
PartialMsg ==
    [sender |-> SENDER, subject |-> SUBJECT,
     parts |-> <<PlainPart, HtmlPart(<<PriceTag, AddressTag>>)>>]
\* a mail of another sender
OtherMsg ==
    [sender |-> "someone@else", subject |-> SUBJECT,
     parts |-> <<PlainPart, HtmlPart(<<PhotoTag, PriceTag, FactsTag, AddressTag>>)>>]

Arrivals == {FullMsg, NoHtmlMsg, PartialMsg, OtherMsg}

\* message_data before the first fetch
NoMessage == [sender |-> None, subject |-> None, parts |-> <<>>]

(***************************************************************************)
(* State.                                                                   *)
(***************************************************************************)
VARIABLES
    mailbox,        \* the server's mailbox: message number -> [message, seen]
    conn,           \* the IMAP4_SSL object: "none", "nonauth", "auth",
                    \* "selected", "logout"
    pc,             \* position of the generator fetch_new_listings
    err,            \* the exception that ended the generator ("" when none)
    msgnums,        \* the message numbers of the last search
    i,              \* position of the for loop in msgnums
    message_data,   \* the message of the last fetch
    listing,        \* the listing of the last parse
    task,           \* position of the task post_new_listings
    emitted,        \* the listings yielded so far: [msgnum, listing, cycle]
    sent,           \* the message numbers whose embed was posted to the channel
    nSearch,        \* searches issued
    nFetch,         \* fetches issued
    nStore,         \* stores issued
    sleeps,         \* sleeps started since the last search
    fetched,        \* message numbers fetched since the last search
    raised          \* the call of conn that raised ("" when none did)

vars == <<mailbox, conn, pc, err, msgnums, i, message_data, listing, task,
          emitted, sent, nSearch, nFetch, nStore, sleeps, fetched, raised>>

gen == <<conn, pc, err, msgnums, i, message_data, listing>>
hist == <<nSearch, nFetch, nStore, sleeps, fetched, raised>>

Init ==
    /\ mailbox = <<>>
    /\ conn = "none"
    /\ pc = "created"
    /\ err = ""
    /\ msgnums = <<>>
    /\ i = 1
    /\ message_data = NoMessage
    /\ listing = NoListing
    /\ task = "wait_ready"
    /\ emitted = <<>>
    /\ sent = <<>>
    /\ nSearch = 0
    /\ nFetch = 0
    /\ nStore = 0
    /\ sleeps = 0
    /\ fetched = <<>>
    /\ raised = ""

(***************************************************************************)
(* The mail server.                                                         *)
(***************************************************************************)
\* a new mail is delivered; it gets the next message number
Arrive ==
    /\ Len(mailbox) < MaxMsgs
    /\ \E m \in Arrivals :
          mailbox' = Append(mailbox, [message |-> m, seen |-> FALSE])
    /\ UNCHANGED <<gen, task, emitted, sent, hist>>

\* mutant: the criteria without UNSEEN
criteriaWithoutUnseen(entry) ==
    /\ entry.message.sender = SENDER
    /\ entry.message.subject = SUBJECT

\* the search criteria (FROM sender SUBJECT subject UNSEEN), on one entry
criteria(entry) ==
    /\ entry.message.sender = SENDER
    /\ entry.message.subject = SUBJECT
    /\ ~entry.seen

\* SEARCH: the matching message numbers, ascending
RECURSIVE SearchFrom(_, _)
SearchFrom(box, n) ==
    IF n > Len(box) THEN <<>>
    ELSE (IF criteria(box[n]) THEN <<n>> ELSE <<>>) \o SearchFrom(box, n + 1)

ServerSearch(box) == SearchFrom(box, 1)

\* mutant: the store does not add the flag
ServerStoreWithoutSeen(box, n) == box

\* STORE msgnum +FLAGS \Seen
ServerStore(box, n) == [box EXCEPT ![n].seen = TRUE]

(***************************************************************************)
(* fetch_new_listings.                                                      *)
(***************************************************************************)
\* mutant: the task catches the exception and its while loop starts a new
\* generator
RaiseCaughtByTask(e) ==
    /\ pc' = "connect"
    /\ err' = e
    /\ conn' = "logout"
    /\ task' = "anext"

\* mutant: the connection is not held by a with block
RaiseWithoutExit(e) ==
    /\ pc' = "failed"
    /\ err' = e
    /\ conn' = conn
    /\ task' = "failed"

\* an exception leaves the with block: IMAP4.__exit__ logs out, and the
\* exception reaches the task awaiting the generator
Raise(e) ==
    /\ pc' = "failed"
    /\ err' = e
    /\ conn' = "logout"
    /\ task' = "failed"

\* the for loop takes the next message number, or the loop body ends
ForNext(k, nums) == IF k <= Len(nums) THEN "fetch" ELSE "sleep"

\* post_new_listings: wait_until_ready returns and the async for asks the
\* new generator for its first element
Ready ==
    /\ task = "wait_ready"
    /\ task' = "anext"
    /\ pc' = "connect"
    /\ UNCHANGED <<mailbox, conn, err, msgnums, i, message_data, listing,
                   emitted, sent, hist>>

\* imap_connection: IMAP4_SSL(...) then login
ConnectOk ==
    /\ pc = "connect"
    /\ conn' = "auth"
    /\ pc' = "select"
    /\ UNCHANGED <<mailbox, err, msgnums, i, message_data, listing, task,
                   emitted, sent, hist>>

\* IMAP4_SSL(...) raises: no connection was made
ConnectFail ==
    /\ pc = "connect"
    /\ pc' = "failed"
    /\ err' = "connect"
    /\ task' = "failed"
    /\ raised' = "connect"
    /\ UNCHANGED <<mailbox, conn, msgnums, i, message_data, listing,
                   emitted, sent, nSearch, nFetch, nStore, sleeps, fetched>>

\* login raises: the with block was not entered, nothing closes the connection
LoginFail ==
    /\ pc = "connect"
    /\ conn' = "nonauth"
    /\ pc' = "failed"
    /\ err' = "login"
    /\ task' = "failed"
    /\ raised' = "login"
    /\ UNCHANGED <<mailbox, msgnums, i, message_data, listing,
                   emitted, sent, nSearch, nFetch, nStore, sleeps, fetched>>

\* conn.select(settings.MAILBOX)
SelectOk ==
    /\ pc = "select"
    /\ conn' = "selected"
    /\ pc' = "search"
    /\ UNCHANGED <<mailbox, err, msgnums, i, message_data, listing, task,
                   emitted, sent, hist>>

\* mutant: the failure of select is caught and the loop is entered
SelectFailIgnored ==
    /\ pc = "select"
    /\ pc' = "search"
    /\ raised' = "select"
    /\ UNCHANGED <<mailbox, conn, err, msgnums, i, message_data, listing, task,
                   emitted, sent, nSearch, nFetch, nStore, sleeps, fetched>>

SelectFail ==
    /\ pc = "select"
    /\ Raise("select")
    /\ raised' = "select"
    /\ UNCHANGED <<mailbox, msgnums, i, message_data, listing,
                   emitted, sent, nSearch, nFetch, nStore, sleeps, fetched>>

\* mutant: the sleep is inside the if, so an empty search does not sleep
SearchOkSleepInsideIf ==
    /\ pc = "search"
    /\ nSearch < MaxSearches
    /\ msgnums' = ServerSearch(mailbox)
    /\ i' = 1
    /\ pc' = (IF msgnums' = <<>> THEN "search" ELSE "fetch")
    /\ nSearch' = nSearch + 1
    /\ sleeps' = 0
    /\ fetched' = <<>>
    /\ UNCHANGED <<mailbox, conn, err, message_data, listing, task,
                   emitted, sent, nFetch, nStore, raised>>

\* conn.search(None, criteria); msgnums = data[0].split(); the for loop starts,
\* or with no message found the loop body is skipped
SearchOk ==
    /\ pc = "search"
    /\ nSearch < MaxSearches
    /\ msgnums' = ServerSearch(mailbox)
    /\ i' = 1
    /\ pc' = ForNext(1, msgnums')
    /\ nSearch' = nSearch + 1
    /\ sleeps' = 0
    /\ fetched' = <<>>
    /\ UNCHANGED <<mailbox, conn, err, message_data, listing, task,
                   emitted, sent, nFetch, nStore, raised>>

SearchFail ==
    /\ pc = "search"
    /\ nSearch < MaxSearches
    /\ Raise("search")
    /\ nSearch' = nSearch + 1
    /\ raised' = "search"
    /\ UNCHANGED <<mailbox, msgnums, i, message_data, listing,
                   emitted, sent, nFetch, nStore, sleeps, fetched>>

\* mutant: the message is marked seen as soon as it is fetched
FetchOkThenStore ==
    /\ pc = "fetch"
    /\ message_data' = mailbox[msgnums[i]].message
    /\ mailbox' = ServerStore(mailbox, msgnums[i])
    /\ pc' = "parse"
    /\ nFetch' = nFetch + 1
    /\ fetched' = Append(fetched, msgnums[i])
    /\ UNCHANGED <<conn, err, msgnums, i, listing, task,
                   emitted, sent, nSearch, nStore, sleeps, raised>>

\* conn.fetch(msgnum, '(RFC822)')
FetchOk ==
    /\ pc = "fetch"
    /\ message_data' = mailbox[msgnums[i]].message
    /\ pc' = "parse"
    /\ nFetch' = nFetch + 1
    /\ fetched' = Append(fetched, msgnums[i])
    /\ UNCHANGED <<mailbox, conn, err, msgnums, i, listing, task,
                   emitted, sent, nSearch, nStore, sleeps, raised>>

\* mutant: a failed fetch is caught and the loop goes on with the next number
FetchFailSkipped ==
    /\ pc = "fetch"
    /\ raised' = "fetch"
    /\ nFetch' = nFetch + 1
    /\ i' = i + 1
    /\ pc' = ForNext(i + 1, msgnums)
    /\ UNCHANGED <<mailbox, conn, err, msgnums, message_data, listing, task,
                   emitted, sent, nSearch, nStore, sleeps, fetched>>

FetchFail ==
    /\ pc = "fetch"
    /\ Raise("fetch")
    /\ nFetch' = nFetch + 1
    /\ raised' = "fetch"
    /\ UNCHANGED <<mailbox, msgnums, i, message_data, listing,
                   emitted, sent, nSearch, nStore, sleeps, fetched>>

\* listing = parse_message_for_listing(message_data): no handler surrounds
\* the call, so an exception of the parse leaves the generator
Parse ==
    /\ pc = "parse"
    /\ LET r == parse_message_for_listing(message_data)
       IN  IF r.status = "ok"
           THEN /\ listing' = r.listing
                /\ pc' = "store"
                /\ UNCHANGED <<conn, err, task>>
           ELSE /\ Raise(r.status)
                /\ UNCHANGED listing
    /\ UNCHANGED <<mailbox, msgnums, i, message_data, emitted, sent, hist>>

\* mutant: the mailbox is selected read-only, the flag is not set
StoreOkReadOnly ==
    /\ pc = "store"
    /\ pc' = "yield"
    /\ nStore' = nStore + 1
    /\ UNCHANGED <<mailbox, conn, err, msgnums, i, message_data, listing, task,
                   emitted, sent, nSearch, nFetch, sleeps, fetched, raised>>

\* conn.store(msgnum, '+FLAGS', '\\Seen')
StoreOk ==
    /\ pc = "store"
    /\ mailbox' = ServerStore(mailbox, msgnums[i])
    /\ pc' = "yield"
    /\ nStore' = nStore + 1
    /\ UNCHANGED <<conn, err, msgnums, i, message_data, listing, task,
                   emitted, sent, nSearch, nFetch, sleeps, fetched, raised>>

StoreFail ==
    /\ pc = "store"
    /\ Raise("store")
    /\ nStore' = nStore + 1
    /\ raised' = "store"
    /\ UNCHANGED <<mailbox, msgnums, i, message_data, listing,
                   emitted, sent, nSearch, nFetch, sleeps, fetched>>

\* mutant: the listing is queued and the generator goes on without
\* waiting for the consumer
YieldWithoutSuspending ==
    /\ pc = "yield"
    /\ emitted' = Append(emitted, [msgnum |-> msgnums[i], listing |-> listing,
                                     cycle |-> nSearch])
    /\ i' = i + 1
    /\ pc' = ForNext(i + 1, msgnums)
    /\ UNCHANGED <<mailbox, conn, err, msgnums, message_data, listing, task,
                   sent, hist>>

\* mutant: the listing is put on a queue for the consumer and the generator
\* goes on with the next message number
YieldToQueue ==
    /\ pc = "yield"
    /\ emitted' = Append(emitted, [msgnum |-> msgnums[i], listing |-> listing,
                                     cycle |-> nSearch])
    /\ task' = "send"
    /\ i' = i + 1
    /\ pc' = ForNext(i + 1, msgnums)
    /\ UNCHANGED <<mailbox, conn, err, msgnums, message_data, listing,
                   sent, hist>>

\* yield listing: the generator suspends and the body of the async for runs
\* up to await channel.send
Yield ==
    /\ pc = "yield"
    /\ emitted' = Append(emitted, [msgnum |-> msgnums[i], listing |-> listing,
                                     cycle |-> nSearch])
    /\ pc' = "suspended"
    /\ task' = "send"
    /\ UNCHANGED <<mailbox, conn, err, msgnums, i, message_data, listing,
                   sent, hist>>

\* channel.send returns; the async for asks for the next element and the
\* generator resumes after the yield
SendOk ==
    /\ task = "send"
    /\ sent' = Append(sent, emitted[Len(emitted)].msgnum)
    /\ task' = "anext"
    /\ i' = i + 1
    /\ pc' = ForNext(i + 1, msgnums)
    /\ UNCHANGED <<mailbox, conn, err, msgnums, message_data, listing,
                   emitted, hist>>

\* channel.send raises: the exception leaves post_new_listings; the
\* generator stays suspended at its yield
SendFail ==
    /\ task = "send"
    /\ task' = "failed"
    /\ UNCHANGED <<mailbox, gen, emitted, sent, hist>>

\* await asyncio.sleep(wait) starts
Sleep ==
    /\ pc = "sleep"
    /\ pc' = "sleeping"
    /\ sleeps' = sleeps + 1
    /\ UNCHANGED <<mailbox, conn, err, msgnums, i, message_data, listing, task,
                   emitted, sent, nSearch, nFetch, nStore, fetched, raised>>

\* the sleep is over: back to the top of while True
Wake ==
    /\ pc = "sleeping"
    /\ pc' = "search"
    /\ UNCHANGED <<mailbox, conn, err, msgnums, i, message_data, listing, task,
                   emitted, sent, hist>>

\* mutant: the generator catches CancelledError at the sleep and polls on
CancelSleepSwallowed ==
    /\ pc = "sleeping"
    /\ pc' = "search"
    /\ task' = "cancelled"
    /\ UNCHANGED <<mailbox, conn, err, msgnums, i, message_data, listing,
                   emitted, sent, hist>>

\* the task is cancelled while the generator sleeps: CancelledError is raised
\* at the await inside the with block
CancelSleep ==
    /\ pc = "sleeping"
    /\ pc' = "failed"
    /\ err' = "CancelledError"
    /\ conn' = "logout"
    /\ task' = "cancelled"
    /\ UNCHANGED <<mailbox, msgnums, i, message_data, listing,
                   emitted, sent, hist>>

\* the task is cancelled while it awaits channel.send (the generator is
\* suspended at its yield) or wait_until_ready
CancelTask ==
    /\ task \in {"send", "wait_ready"}
    /\ task' = "cancelled"
    /\ UNCHANGED <<mailbox, gen, emitted, sent, hist>>

\* the abandoned generator is closed (the event loop's asyncgen finalizer,
\* shutdown_asyncgens): GeneratorExit is raised at the yield and leaves the
\* with block
Aclose ==
    /\ pc = "suspended"
    /\ task \in {"failed", "cancelled"}
    /\ pc' = "closed"
    /\ conn' = "logout"
    /\ UNCHANGED <<mailbox, err, msgnums, i, message_data, listing, task,
                   emitted, sent, hist>>

Next ==
    \/ Arrive
    \/ Ready
    \/ ConnectOk
    \/ ConnectFail
    \/ LoginFail
    \/ SelectOk
    \/ SelectFail
    \/ SearchOk
    \/ SearchFail
    \/ FetchOk
    \/ FetchFail
    \/ Parse
    \/ StoreOk
    \/ StoreFail
    \/ Yield
    \/ SendOk
    \/ SendFail
    \/ Sleep
    \/ Wake
    \/ CancelSleep
    \/ CancelTask
    \/ Aclose

Spec == Init /\ [][Next]_vars

(***************************************************************************)
(* The run in which no call of conn raises, channel.send returns and the    *)
(* task is not cancelled. The event loop runs the task whenever it can run: *)
(* every blocking call returns, the sleep ends, the consumer asks for the   *)
(* next element.                                                            *)
(***************************************************************************)
Run ==
    \/ Ready
    \/ ConnectOk
    \/ SelectOk
    \/ SearchOk
    \/ FetchOk
    \/ Parse
    \/ StoreOk
    \/ Yield
    \/ SendOk
    \/ Sleep
    \/ Wake

LiveNext == Arrive \/ Run

LiveSpec == Init /\ [][LiveNext]_vars /\ WF_vars(Run)

(***************************************************************************)
(* parse_message_for_listing on its own: the call on a message drawn from   *)
(* bounded families of messages.                                            *)
(***************************************************************************)
\* tags of one HTML document
MaxTags == 6
\* parts of one message
MaxParts == 2
\* characters of one element's text
MaxTextLen == 3

Chars == {SP, "a", ZWNJ}
Texts == UNION {[1..n -> Chars] : n \in 0..MaxTextLen}

\* what the k-th tag of a document is: one of the four recognised elements,
\* an element with another aria-label, an element without aria-label
Kinds == {"photo", "price", "facts", "address", "other", "unlabelled"}

\* the k-th tag of a document, of the given kind, with data naming k
KindTag(kind, k) ==
    [has_aria |-> kind # "unlabelled",
     aria |-> IF kind = "unlabelled" THEN <<>>
              ELSE IF kind = "other" THEN <<"Save", "search">>
              ELSE <<"Property", kind>>,
     text |-> <<"t", ToString(k)>>,
     a |-> <<"u" \o ToString(k)>>,
     background |-> "b" \o ToString(k)]

HtmlMsg(tags) ==
    [sender |-> SENDER, subject |-> SUBJECT,
     parts |-> <<PlainPart, HtmlPart(tags)>>]

\* a document whose k-th tag is of kind kinds[k]
TagDoc(kinds) == HtmlMsg([k \in DOMAIN kinds |-> KindTag(kinds[k], k)])

\* the parts a message is made of
Parts ==
    {PlainPart,
     HtmlPart(<<PhotoTag, PriceTag, FactsTag, AddressTag>>),
     HtmlPart(<<PriceTag, AddressTag>>)}

PartDoc(parts) == [sender |-> SENDER, subject |-> SUBJECT, parts |-> parts]

\* the four elements with the given anchor, background and texts (the facts
\* carry the text of the price)
TextDoc(a, background, price, address) ==
    HtmlMsg(<<Tag(<<"Property", "photo">>, <<>>, a, background),
              Tag(<<"Property", "price">>, price, <<>>, None),
              Tag(<<"Property", "facts">>, price, <<>>, None),
              Tag(<<"Property", "address">>, address, <<>>, None)>>)

\* the message is a document of up to MaxTags tags of any kinds in any
\* order, a message of up to MaxParts parts, or the four elements with any
\* anchor, background and texts
ParseInit ==
    /\ \/ \E n \in 0..MaxTags : \E kinds \in [1..n -> Kinds] :
             message_data = TagDoc(kinds)
       \/ \E n \in 0..MaxParts : \E parts \in [1..n -> Parts] :
             message_data = PartDoc(parts)
       \/ \E a \in {<<>>, <<None>>, <<"href">>} :
          \E background \in {None, "img"} :
          \E price \in Texts : \E address \in Texts :
             message_data = TextDoc(a, background, price, address)
    /\ pc = "call"
    /\ mailbox = <<>>
    /\ conn = "none"
    /\ err = ""
    /\ msgnums = <<>>
    /\ i = 1
    /\ listing = NoListing
    /\ task = "wait_ready"
    /\ emitted = <<>>
    /\ sent = <<>>
    /\ nSearch = 0
    /\ nFetch = 0
    /\ nStore = 0
    /\ sleeps = 0
    /\ fetched = <<>>
    /\ raised = ""

\* the call returns a listing or raises
ParseCall ==
    /\ pc = "call"
    /\ LET r == parse_message_for_listing(message_data)
       IN  /\ listing' = r.listing
           /\ err' = (IF r.status = "ok" THEN "" ELSE r.status)
    /\ pc' = "returned"
    /\ UNCHANGED <<mailbox, conn, msgnums, i, message_data, task,
                   emitted, sent, hist>>

ParseSpec == ParseInit /\ [][ParseCall]_vars

(***************************************************************************)
(* Properties.                                                              *)
(***************************************************************************)
Range(seq) == {seq[k] : k \in DOMAIN seq}

\* the message numbers whose listing was yielded
EmittedNums == {emitted[k].msgnum : k \in DOMAIN emitted}

\* the exceptions parse_message_for_listing raises
ExtractionErrors == {"UnboundLocalError", "AttributeError", "TypeError"}

\* the parse of the k-th fetched message of this cycle is over
ParseDone(k) == ~(k = Len(fetched) /\ pc = "parse")

\* the k-th fetched message of this cycle is one whose extraction fails
ExtractionFails(k) ==
    parse_message_for_listing(mailbox[fetched[k]].message).status # "ok"

C2_NoDuplicateEmission ==
    /\ \A j, k \in DOMAIN emitted :
          j # k => emitted[j].msgnum # emitted[k].msgnum
    /\ pc \in {"fetch", "parse", "store", "yield"} =>
          \A k \in i..Len(msgnums) : msgnums[k] \notin EmittedNums

C2_Witness ==
    \E j, k \in DOMAIN emitted : emitted[j].cycle < emitted[k].cycle

\* C3: when the extraction of a matched message fails, the message is still
\* marked seen and nothing is emitted for it.
C3_FailedExtractionMarkedSeen ==
    \A k \in DOMAIN fetched :
        (ExtractionFails(k) /\ ParseDone(k)) =>
            /\ mailbox[fetched[k]].seen
            /\ fetched[k] \notin EmittedNums

\* C4: an extraction error never terminates the pipeline.
C4_ExtractionNeverTerminates ==
    ~(pc = "failed" /\ err \in ExtractionErrors)

\* C5: when the fetch of the k-th handle of a cycle fails, the run ends with
\* a failure that reaches the task; handles 1..k-1 are emitted and seen,
\* handles k.. of the cycle are neither seen nor emitted.
C5_FetchFailureIsFatal ==
    raised = "fetch" =>
        /\ pc = "failed"
        /\ err = "fetch"
        /\ task = "failed"
        /\ \A k \in 1..(i - 1) :
              /\ msgnums[k] \in EmittedNums
              /\ mailbox[msgnums[k]].seen
        /\ \A k \in i..Len(msgnums) :
              /\ msgnums[k] \notin EmittedNums
              /\ ~mailbox[msgnums[k]].seen

C5_Witness ==
    /\ raised = "fetch"
    /\ Len(msgnums) = 3
    /\ i = 2

\* C6: when the generator has ended, by an exception of select, search,
\* fetch, parse or store, by cancellation at the sleep or by being closed at
\* the yield, the connection is logged out; the task that got the exception
\* finds it logged out.
C6_SessionReleasedOnExit ==
    (pc \in {"failed", "closed"} /\ raised \notin {"connect", "login"}) =>
        conn = "logout"

C6_Witness ==
    /\ pc = "failed"
    /\ err = "store"
    /\ task = "failed"
    /\ Len(emitted) >= 1

\* C7: the handles of a cycle are fetched in search order, one at a time:
\* what was fetched is a prefix of the search result, and when a handle is
\* fetched every earlier handle of the cycle is seen, emitted and taken by
\* the consumer.
C7_OneAtATimeInSearchOrder ==
    /\ Len(fetched) <= Len(msgnums)
    /\ fetched = SubSeq(msgnums, 1, Len(fetched))
    /\ \A k \in 1..(Len(fetched) - 1) :
          /\ mailbox[fetched[k]].seen
          /\ fetched[k] \in EmittedNums
          /\ fetched[k] \in Range(sent)
    /\ pc \in {"parse", "store", "yield", "suspended"} => Len(fetched) = i
    /\ pc = "fetch" =>
          /\ Len(fetched) = i - 1
          /\ task = "anext"
          /\ \A k \in 1..(i - 1) : msgnums[k] \in Range(sent)

C7_Witness ==
    /\ Len(fetched) = 2
    /\ pc = "parse"
    /\ fetched[1] \in Range(sent)

\* C8: between two searches there is exactly one sleep, started after every
\* handle of the earlier search was handled; a search that finds nothing
\* emits nothing, raises nothing and sleeps before the next search.
C8_OneSleepBetweenSearches ==
    /\ (pc = "search" /\ nSearch >= 1) => sleeps = 1
    /\ pc \in {"fetch", "parse", "store", "yield", "suspended", "sleep"} =>
          sleeps = 0
    /\ pc = "sleeping" => sleeps = 1
    /\ pc \in {"sleep", "sleeping"} =>
          /\ err = ""
          /\ fetched = msgnums
          /\ \A k \in DOMAIN msgnums :
                /\ mailbox[msgnums[k]].seen
                /\ msgnums[k] \in Range(sent)
    /\ (nSearch >= 1 /\ msgnums = <<>> /\ pc # "failed") =>
          /\ pc \in {"sleep", "sleeping", "search"}
          /\ \A k \in DOMAIN emitted : emitted[k].cycle < nSearch

C8_Witness ==
    /\ nSearch = 2
    /\ msgnums = <<>>
    /\ pc = "search"
    /\ sleeps = 1

\* C9: a message with an HTML part is parsed into a listing whatever subset
\* of the four labelled elements it holds: the parse of such a message never
\* raises, so the generator never ends by an extraction error on it.
C9_PartialListingIsReturned ==
    (pc = "failed" /\ err \in ExtractionErrors) =>
        HtmlParts(message_data) = <<>>

\* C10: the task can be cancelled while the generator is suspended at its
\* yield and while it sleeps, and once it is cancelled no listing is emitted
\* or posted and no search, fetch or store is issued.
C10_NothingAfterCancellation ==
    /\ [](pc = "sleeping" => ENABLED CancelSleep)
    /\ [](task = "send" => ENABLED CancelTask)
    /\ [][task = "cancelled" =>
            /\ emitted' = emitted
            /\ sent' = sent
            /\ nSearch' = nSearch
            /\ nFetch' = nFetch
            /\ nStore' = nStore]_vars

C10_Witness ==
    /\ task = "cancelled"
    /\ pc = "closed"
    /\ Len(emitted) >= 1


\* C11: the yield is a blocking handoff: while the consumer holds a listing
\* and has not asked for the next one, the generator is suspended and issues
\* no search, fetch or store and yields nothing; at most one yielded listing
\* is not yet posted.
C11_BlockingHandoff ==
    /\ [](Len(emitted) - Len(sent) <= 1)
    /\ [](task = "send" => pc = "suspended")
    /\ [][task = "send" =>
            /\ emitted' = emitted
            /\ nSearch' = nSearch
            /\ nFetch' = nFetch
            /\ nStore' = nStore]_vars

\* a second listing is handed over while another message waits in the mailbox
C11_Witness ==
    /\ task = "send"
    /\ Len(emitted) = 2
    /\ Len(sent) = 1
    /\ i < Len(msgnums)


\* C12: for a message none of whose parts is text/html the call raises the
\* error of the missing HTML body (no name was bound to body) and returns no
\* listing.
C12_NoHtmlPartFails ==
    (pc = "returned" /\ \A k \in DOMAIN message_data.parts :
                            message_data.parts[k].ctype # "text/html") =>
        /\ err = "UnboundLocalError"
        /\ listing = NoListing

C12_Witness ==
    /\ pc = "returned"
    /\ Len(message_data.parts) = 2
    /\ \A k \in DOMAIN message_data.parts :
          message_data.parts[k].ctype # "text/html"


\* the tags of the first text/html part of the parsed message
DocTags ==
    LET html == {k \in DOMAIN message_data.parts :
                    message_data.parts[k].ctype = "text/html"}
    IN  message_data.parts[CHOOSE k \in html : \A j \in html : k <= j].tags

\* the labelled tags of the document up to its k-th tag
LabelRank(tags, k) == Cardinality({j \in 1..k : tags[j].has_aria})

\* the positions of the labelled tags that are the sixth or later
BeyondFive(tags) ==
    {k \in DOMAIN tags : tags[k].has_aria /\ LabelRank(tags, k) > 5}

\* the positions of the first five labelled tags
FirstFive(tags) ==
    {k \in DOMAIN tags : tags[k].has_aria /\ LabelRank(tags, k) <= 5}

\* the tag's aria-label starts with "Property <word>"
Labelled(tag, word) ==
    /\ tag.has_aria
    /\ Len(tag.aria) >= 2
    /\ tag.aria[1] = "Property"
    /\ tag.aria[2] = word

\* C13: the data of a recognised element that is the sixth or a later
\* labelled element of the document is in no field of the returned listing
\* (in these documents every tag's href, background and text name the tag).
C13_SixthLabelledElementIgnored ==
    (pc = "returned" /\ err = "") =>
        \A k \in BeyondFive(DocTags) :
            /\ Labelled(DocTags[k], "photo") =>
                  /\ listing.url # DocTags[k].a
                  /\ listing.image_url # <<DocTags[k].background>>
            /\ Labelled(DocTags[k], "price") =>
                  listing.price # <<DocTags[k].text>>
            /\ Labelled(DocTags[k], "facts") =>
                  listing.facts # <<DocTags[k].text>>
            /\ Labelled(DocTags[k], "address") =>
                  listing.address # <<DocTags[k].text>>

\* a listing was returned for a document whose sixth labelled element is a
\* price element
C13_Witness ==
    /\ pc = "returned"
    /\ err = ""
    /\ \E k \in BeyondFive(DocTags) : Labelled(DocTags[k], "price")


\* the parsed message has a text/html part
HasHtml == \E k \in DOMAIN message_data.parts :
               message_data.parts[k].ctype = "text/html"

\* the element with the given label among the first five labelled tags
The(word) ==
    DocTags[CHOOSE k \in FirstFive(DocTags) : Labelled(DocTags[k], word)]

\* the call returned for a document that has exactly one element of each of
\* the four recognised kinds within its first five labelled elements
OneOfEachKind ==
    /\ pc = "returned"
    /\ HasHtml
    /\ \A word \in {"photo", "price", "facts", "address"} :
          Cardinality({k \in FirstFive(DocTags) :
                          Labelled(DocTags[k], word)}) = 1

\* t is s without its leading and trailing blanks
IsTrimOf(t, s) ==
    /\ \E a, b \in 0..Len(s) :
          /\ a + b <= Len(s)
          /\ t = SubSeq(s, a + 1, Len(s) - b)
          /\ \A k \in 1..a : s[k] = SP
          /\ \A k \in (Len(s) - b + 1)..Len(s) : s[k] = SP
    /\ t # <<>> => (t[1] # SP /\ t[Len(t)] # SP)

\* the contiguous pieces of s
Pieces(s) ==
    {SubSeq(s, a + 1, Len(s) - b) :
        a \in 0..Len(s), b \in 0..Len(s)}

WithoutZwnj(s) == SelectSeq(s, LAMBDA c : c # ZWNJ)

\* the returned listing has its five fields populated from the four elements
AllFieldsPopulated ==
    /\ err = ""
    /\ listing.url = The("photo").a
    /\ listing.url # <<None>>
    /\ listing.image_url = <<The("photo").background>>
    /\ listing.image_url # <<None>>
    /\ IsTrimOf(listing.price[1], The("price").text)
    /\ IsTrimOf(listing.facts[1], The("facts").text)
    /\ \E t \in Pieces(The("address").text) :
          /\ IsTrimOf(t, The("address").text)
          /\ listing.address = <<WithoutZwnj(t)>>

\* C14 as stated: whenever the document has exactly one element of each of
\* the four kinds within its first five labelled elements, all five fields
\* are populated from them.
C14_AllFieldsPopulated ==
    OneOfEachKind => AllFieldsPopulated

\* C14, amended: when moreover the photo element holds an anchor with an href
\* and has a background attribute, the listing is returned with url and
\* image_url from the photo element, price and facts the trimmed text of
\* their elements, and address the trimmed text of its element with every
\* U+200C removed.
C14_AllFieldsPopulatedGivenAnchor ==
    (/\ OneOfEachKind
     /\ The("photo").a # <<>>
     /\ The("photo").a # <<None>>
     /\ The("photo").background # None) => AllFieldsPopulated

\* a listing whose address lost a U+200C and whose price lost its blanks
C14_Witness ==
    /\ OneOfEachKind
    /\ err = ""
    /\ The("address").text = <<ZWNJ, "a", SP>>
    /\ listing.address = <<<<"a">>>>
    /\ The("price").text = <<SP, "a", SP>>
    /\ listing.price = <<<<"a">>>>


SessionErrors == {"search", "fetch", "store"}

\* C17: an exception of search, fetch or store ends the generator and the
\* task with that exception, and from then on no connection is opened, no
\* search, fetch or store is issued and no listing is emitted or posted.
C17_SessionErrorIsFinal ==
    /\ [](raised \in SessionErrors =>
            (pc = "failed" /\ err = raised /\ task = "failed"
                /\ conn = "logout"))
    /\ [][(raised \in SessionErrors) =>
            (pc' = pc /\ conn' = conn /\ task' = task
                /\ nSearch' = nSearch /\ nFetch' = nFetch
                /\ nStore' = nStore /\ emitted' = emitted
                /\ sent' = sent)]_vars

\* a search failed and a matching message arrived after it
C17_Witness ==
    /\ raised = "search"
    /\ nSearch = 1
    /\ Len(mailbox) = 1
    /\ criteria(mailbox[1])


\* C18: with no session-layer error, no cancellation and a consumer that
\* takes every element, a message that is unseen and matches the criteria
\* (while a further search of the run is still to come) is eventually marked
\* seen.
C18_EveryMatchEventuallySeen ==
    \A n \in 1..MaxMsgs :
        (n <= Len(mailbox) /\ criteria(mailbox[n]) /\ nSearch < MaxSearches)
            ~> (n <= Len(mailbox) /\ mailbox[n].seen)


\* C19: when login raises, the connection IMAP4_SSL opened is closed before
\* the exception reaches the caller.
C19_FailedLoginClosesConnection ==
    raised = "login" => conn \in {"none", "logout"}

\* C20: a listing whose post to the channel failed is lost: its message is
\* seen, so no search of this or of a later run returns it, it is not posted,
\* and after the failure nothing is emitted or posted; no listing is posted
\* twice.
C20_FailedPostIsLost ==
    /\ [](\A k \in DOMAIN emitted : \A j \in DOMAIN ServerSearch(mailbox) :
            ServerSearch(mailbox)[j] # emitted[k].msgnum)
    /\ [](\A j, k \in DOMAIN sent : j # k => sent[j] # sent[k])
    /\ []((task = "failed" /\ pc \in {"suspended", "closed"}) =>
            emitted[Len(emitted)].msgnum \notin Range(sent))
    /\ [][(task = "failed") => (sent' = sent /\ emitted' = emitted)]_vars

\* the post of the second listing failed and the generator was closed
C20_Witness ==
    /\ task = "failed"
    /\ pc = "closed"
    /\ Len(emitted) = 2
    /\ Len(sent) = 1

====
